---- MODULE Spec2Model ----
(***************************************************************************)
(* A model of the Coursera course scraper (src/main.py): the run of main,  *)
(* the per-keyword pass scrape_language, the infinite-scroll discovery     *)
(* loop collect_all_course_cards, and the duration cascade of              *)
(* parse_course_detail.                                                    *)
(***************************************************************************)
EXTENDS Integers, Sequences, FiniteSets, TLC

(***************************************************************************)
(* Bounds of the model.                                                    *)
(***************************************************************************)
\* how many entries of LANGUAGES the modelled run scrapes
NumLangs == 2
\* how many /learn/ anchors the search page's DOM holds at most
MaxDom == 2
\* how many elements (candidates) one duration strategy scans at most
MaxEls == 2

(***************************************************************************)
(* Program constants.                                                      *)
(***************************************************************************)
MAX_IDLE_SCROLLS == 6
RETRY_DETAIL == 2
\* the "reasonable length check" of strategies 1 and 3: len(d) < 50
LenLimit == 50
\* f"C{len(data)+1:04d}" and f"C{i:05d}"
TempIdWidth == 4
FinalIdWidth == 5

VARIABLES
    pc,          \* where main (and the scrape_language it calls) stands
    session,     \* the browser session: "none", "open", "closed"
    quits,       \* how many times driver.quit() has been called
    raised,      \* origin of the exception that is propagating ("none" if none)
    lang,        \* index into LANGUAGES of the keyword being scraped
    all_rows,    \* main's accumulated rows
    output,      \* what the run wrote: "none", "courses.csv", "backup", "preview"
    snapshot,    \* history: what the DOM of the last snapshot showed
    results,     \* collect_all_course_cards: results (then scrape_language: links)
    idle,        \* collect_all_course_cards: idle
    noGrow,      \* history: consecutive rounds whose snapshot did not grow
    everSeen,    \* history: every link some snapshot of this discovery showed
    scrollFault, \* history: the fault this round's scroll actions reported
    data,        \* scrape_language: data
    li,          \* scrape_language: position of the for loop in links (1-based)
    tries,       \* scrape_language: tries
    seen_links,  \* scrape_language: seen_links
    outcomes,    \* history: per link, the outcomes of its attempts in this pass
    dpage,       \* the detail page as the duration strategies see it
    strat,       \* parse_course_detail: the duration strategy about to run
    duration     \* parse_course_detail: duration

mainVars == <<pc, session, quits, raised, lang, all_rows, output>>
discVars == <<snapshot, results, idle, noGrow, everSeen, scrollFault>>
passVars == <<data, li, tries, seen_links, outcomes>>
durVars == <<dpage, strat, duration>>
vars == <<mainVars, discVars, passVars, durVars>>

(***************************************************************************)
(* Text helpers.                                                           *)
(***************************************************************************)
\* Raw anchor labels: "" is an anchor with neither aria-label nor text;
\* " A" is a label with whitespace that clean_text removes.
Titles == {"", " A", "B"}
Hrefs == {"/learn/x", "/learn/y"}

\* clean_text: collapse whitespace runs, strip
clean_text(s) == IF s = " A" THEN "A" ELSE s

\* "https://www.coursera.org" + href
AbsoluteUrl(href) == <<"https://www.coursera.org", href>>

Urls == {AbsoluteUrl(h) : h \in Hrefs}

Anchors == [title : Titles, href : Hrefs]

SeqsUpTo(S, n) == UNION {[1..k -> S] : k \in 0..n}

Doms == SeqsUpTo(Anchors, MaxDom)

(***************************************************************************)
(* get_links_from_dom                                                      *)
(***************************************************************************)
\* the (title, url) pairs of the anchors that have an href and a title
RECURSIVE ExtractPairs(_)
ExtractPairs(dom) ==
    IF dom = <<>> THEN <<>>
    ELSE LET a == Head(dom)
             rest == ExtractPairs(Tail(dom))
         IN IF a.href # "" /\ a.title # ""
            THEN <<[title |-> clean_text(a.title), link |-> AbsoluteUrl(a.href)]>> \o rest
            ELSE rest

\* a mutated dedup: a later occurrence of a URL replaces the title kept for it
RECURSIVE DedupLastTitle(_, _, _)
DedupLastTitle(links, seen, uniq) ==
    IF links = <<>> THEN uniq
    ELSE LET p == Head(links)
         IN IF p.link \notin seen
            THEN DedupLastTitle(Tail(links), seen \cup {p.link}, Append(uniq, p))
            ELSE DedupLastTitle(Tail(links), seen,
                     [i \in 1..Len(uniq) |-> IF uniq[i].link = p.link THEN p ELSE uniq[i]])

\* "Dedup preserving order": seen / uniq
RECURSIVE Dedup(_, _, _)
Dedup(links, seen, uniq) ==
    IF links = <<>> THEN uniq
    ELSE LET p == Head(links)
         IN IF p.link \notin seen
            THEN Dedup(Tail(links), seen \cup {p.link}, Append(uniq, p))
            ELSE Dedup(Tail(links), seen, uniq)

get_links_from_dom(dom) == Dedup(ExtractPairs(dom), {}, <<>>)

LinkSet(rs) == {rs[i].link : i \in 1..Len(rs)}

(***************************************************************************)
(* What a DOM shows, recorded when it is snapshotted: the first labelled   *)
(* anchor of every URL, in page order, and the URLs that more than one     *)
(* labelled anchor carries.                                                *)
(***************************************************************************)
Labelled(dom) == {k \in 1..Len(dom) : dom[k].title # ""}

IsFirst(dom, k) ==
    /\ k \in Labelled(dom)
    /\ \A j \in Labelled(dom) : j < k => dom[j].href # dom[k].href

\* the n-th smallest member of the set of positions S
RECURSIVE Nth(_, _)
Nth(S, n) ==
    LET least == CHOOSE k \in S : \A j \in S : k <= j
    IN IF n = 1 THEN least ELSE Nth(S \ {least}, n - 1)

Observed(dom) ==
    LET F == {k \in 1..Len(dom) : IsFirst(dom, k)}
    IN [firsts |-> [n \in 1..Cardinality(F) |-> dom[Nth(F, n)]],
        repeated |-> {AbsoluteUrl(dom[k].href) : k \in Labelled(dom) \ F}]

\* the links a DOM shows
ShownBy(dom) == {AbsoluteUrl(dom[k].href) : k \in Labelled(dom)}

NoSnapshot == [firsts |-> <<>>, repeated |-> {}]

(***************************************************************************)
(* Initial state: main has not started.                                    *)
(***************************************************************************)
NoOutcomes == [u \in Urls |-> <<>>]
NoDuration == [s |-> 0, i |-> 0, len |-> 0]
NoDetailPage == [k \in 1..8 |-> <<>>]

PassReset ==
    /\ data' = <<>>
    /\ li' = 1
    /\ tries' = 0
    /\ seen_links' = {}
    /\ outcomes' = NoOutcomes

DiscReset ==
    /\ snapshot' = NoSnapshot
    /\ results' = <<>>
    /\ idle' = 0
    /\ noGrow' = 0
    /\ everSeen' = {}
    /\ scrollFault' = "none"

Init ==
    /\ pc = "start"
    /\ session = "none"
    /\ quits = 0
    /\ raised = "none"
    /\ lang = 1
    /\ all_rows = <<>>
    /\ output = "none"
    /\ snapshot = NoSnapshot
    /\ results = <<>>
    /\ idle = 0
    /\ noGrow = 0
    /\ everSeen = {}
    /\ scrollFault = "none"
    /\ data = <<>>
    /\ li = 1
    /\ tries = 0
    /\ seen_links = {}
    /\ outcomes = NoOutcomes
    /\ dpage = NoDetailPage
    /\ strat = 0
    /\ duration = NoDuration

(***************************************************************************)
(* main: driver = build_driver()                                           *)
(***************************************************************************)
\* "ok": the driver is returned; "chrome": webdriver.Chrome(...) raised, no
\* session exists; "timeout_cfg": set_page_load_timeout raised after the
\* session was created, build_driver raises and main never holds the driver.
BuildOutcomes == {"ok", "chrome", "timeout_cfg"}

BuildDriver ==
    /\ pc = "start"
    /\ \E o \in BuildOutcomes :
          /\ session' = IF o = "chrome" THEN "none" ELSE "open"
          /\ pc' = IF o = "ok" THEN "lang" ELSE "failed"
          /\ raised' = IF o = "ok" THEN "none" ELSE "build"
    /\ UNCHANGED <<quits, lang, all_rows, output>>
    /\ UNCHANGED discVars
    /\ UNCHANGED <<passVars, durVars>>

(***************************************************************************)
(* main's try / finally: where control goes when scrape_language raises.   *)
(***************************************************************************)
\* a main without the finally clause: the exception leaves main at once
OnScrapeRaiseNoFinally == "failed"

OnScrapeRaise == "finally"

(***************************************************************************)
(* scrape_language, up to the initial snapshot of collect_all_course_cards *)
(***************************************************************************)
\* "get": driver.get(SEARCH_URL) raised; "wait": wait_body timed out;
\* "snapshot": driver.page_source raised in the initial get_links_from_dom
StartOutcomes == {"ok", "get", "wait", "snapshot"}

ScrapeStart ==
    /\ pc = "lang"
    /\ lang <= NumLangs
    /\ \E o \in StartOutcomes :
          IF o = "ok"
          THEN \E p \in Doms :
                  /\ snapshot' = Observed(p)
                  /\ results' = get_links_from_dom(p)
                  /\ idle' = 0
                  /\ noGrow' = 0
                  /\ everSeen' = ShownBy(p)
                  /\ scrollFault' = "none"
                  /\ pc' = "discover"
                  /\ raised' = raised
          ELSE /\ pc' = OnScrapeRaise
               /\ raised' = IF o = "snapshot" THEN "snapshot" ELSE "search"
               /\ UNCHANGED discVars
    /\ UNCHANGED <<session, quits, lang, all_rows, output>>
    /\ UNCHANGED <<passVars, durVars>>

(***************************************************************************)
(* collect_all_course_cards: one round of the while loop, in two steps     *)
(***************************************************************************)
\* what a scroll try-block can do: run, raise JavascriptException, or raise
\* another driver exception (WebDriverException, TimeoutException, ...)
ScrollOutcomes == {"ok", "js", "wd"}

\* a handler that swallows nothing
CaughtNone(o) == FALSE

\* except JavascriptException: pass
Caught(o) == o = "js"

ScrollPasses(o) == o = "ok" \/ Caught(o)

\* the fault the two scroll blocks of a round reported, when both were run
Reported(o1, o2) ==
    IF o1 = "wd" \/ o2 = "wd" THEN "wd"
    ELSE IF o1 = "js" \/ o2 = "js" THEN "js"
    ELSE "none"

\* a mutated idle rule: only a shrinking snapshot counts as idle
NextIdleStrict(n, prev_count, i) == IF n < prev_count THEN i + 1 ELSE 0

\* if len(results) <= prev_count: idle += 1 else: idle = 0
NextIdle(n, prev_count, i) == IF n <= prev_count THEN i + 1 ELSE 0

\* if idle >= MAX_IDLE_SCROLLS: break
Stops(i) == i >= MAX_IDLE_SCROLLS

\* a mutated snapshot step: new pairs are appended to the previous results
Accumulated(prev, dom) == Dedup(prev \o ExtractPairs(dom), {}, <<>>)

\* results = get_links_from_dom(): the new snapshot replaces the old one
Resnapshot(prev, dom) == get_links_from_dom(dom)

\* lines 149-163: the two scroll blocks (and the pauses after them)
Scroll ==
    /\ pc = "discover"
    /\ \E o1, o2 \in ScrollOutcomes :
          IF ~ScrollPasses(o1) \/ ~ScrollPasses(o2)
          THEN \* the exception leaves collect_all_course_cards and scrape_language
               /\ ScrollPasses(o1) \/ o2 = "ok"
               /\ pc' = OnScrapeRaise
               /\ raised' = "scroll"
               /\ scrollFault' = IF ~ScrollPasses(o1) THEN o1 ELSE o2
          ELSE /\ pc' = "resnap"
               /\ raised' = raised
               /\ scrollFault' = Reported(o1, o2)
    /\ UNCHANGED <<snapshot, results, idle, noGrow, everSeen>>
    /\ UNCHANGED <<session, quits, lang, all_rows, output>>
    /\ UNCHANGED <<passVars, durVars>>

\* lines 165-175: re-parse, the idle count, the exit of the loop
Reparse ==
    /\ pc = "resnap"
    /\ \E snap \in {"ok", "fail"} :
          IF snap = "fail"
          THEN \* driver.page_source raised in get_links_from_dom
               /\ pc' = OnScrapeRaise
               /\ raised' = "snapshot"
               /\ UNCHANGED <<snapshot, results, idle, noGrow, everSeen, scrollFault>>
               /\ UNCHANGED passVars
          ELSE \E p \in Doms :
               LET prev_count == Len(results)
                   new == Resnapshot(results, p)
               IN /\ snapshot' = Observed(p)
                  /\ results' = new
                  /\ idle' = NextIdle(Len(new), prev_count, idle)
                  /\ noGrow' = IF Len(new) > Len(results) THEN 0 ELSE noGrow + 1
                  /\ everSeen' = everSeen \cup ShownBy(p)
                  /\ scrollFault' = "none"
                  /\ raised' = raised
                  /\ IF Stops(idle')
                     THEN /\ pc' = "links"
                          /\ PassReset
                     ELSE /\ pc' = "discover"
                          /\ UNCHANGED passVars
    /\ UNCHANGED <<session, quits, lang, all_rows, output>>
    /\ UNCHANGED durVars

(***************************************************************************)
(* course_id formatting                                                    *)
(***************************************************************************)
\* the decimal digits of n, most significant first
RECURSIVE Digits(_)
Digits(n) == IF n < 10 THEN <<n>> ELSE Append(Digits(n \div 10), n % 10)

\* format spec 0<w>d: zero-padded on the left to at least w digits
ZeroPad(n, w) ==
    LET d == Digits(n)
    IN IF Len(d) >= w THEN d ELSE [i \in 1..(w - Len(d)) |-> 0] \o d

\* f"C{n:0<w>d}"
FormatId(n, w) == [prefix |-> "C", digits |-> ZeroPad(n, w)]

(***************************************************************************)
(* scrape_language: the for loop over links                                *)
(***************************************************************************)
\* "ok": the page loaded and parse_course_detail returned;
\* "transient": TimeoutException / WebDriverException from driver.get,
\* wait_body or page_source; "other": any other Exception
AttemptOutcomes == {"ok", "transient", "other"}

\* a mutated retry bound: one retry more
RetryAllowedOneMore(t) == t <= RETRY_DETAIL + 1

\* while tries <= RETRY_DETAIL
RetryAllowed(t) == t <= RETRY_DETAIL

\* a mutated handler: a non-transient failure is retried like a transient one
OnAttemptRetryAll(o) == IF o = "ok" THEN "record" ELSE "retry"

\* a mutated handler: no "except Exception" clause
OnAttemptNoCatchAll(o) ==
    CASE o = "ok" -> "record"
      [] o = "transient" -> "retry"
      [] OTHER -> "propagate"

\* what the try statement of one attempt does with its outcome
OnAttempt(o) ==
    CASE o = "ok" -> "record"
      [] o = "transient" -> "retry"
      [] OTHER -> "skip"

\* if link in seen_links: continue
AlreadySeen(link, seen) == link \in seen

NextLink ==
    /\ pc = "links"
    /\ li <= Len(results)
    /\ LET link == results[li].link
       IN IF AlreadySeen(link, seen_links)
          THEN /\ li' = li + 1
               /\ UNCHANGED <<pc, tries, seen_links>>
          ELSE /\ seen_links' = seen_links \cup {link}
               /\ tries' = 0
               /\ pc' = "attempt"
               /\ li' = li
    /\ UNCHANGED <<data, outcomes>>
    /\ UNCHANGED <<session, quits, raised, lang, all_rows, output>>
    /\ UNCHANGED <<discVars, durVars>>

Attempt ==
    /\ pc = "attempt"
    /\ RetryAllowed(tries)
    /\ LET link == results[li].link
       IN \E o \in AttemptOutcomes :
          /\ outcomes' = [outcomes EXCEPT ![link] = Append(@, o)]
          /\ CASE OnAttempt(o) = "record" ->
                    /\ data' = Append(data,
                                  [course_id |-> FormatId(Len(data) + 1, TempIdWidth),
                                   programming_language |-> lang,
                                   course_link |-> link])
                    /\ pc' = "links"
                    /\ li' = li + 1
                    /\ UNCHANGED <<tries, raised>>
               [] OnAttempt(o) = "retry" ->
                    /\ tries' = tries + 1
                    /\ IF RetryAllowed(tries')
                       THEN UNCHANGED <<pc, li>>
                       ELSE pc' = "links" /\ li' = li + 1
                    /\ UNCHANGED <<data, raised>>
               [] OnAttempt(o) = "skip" ->
                    /\ pc' = "links"
                    /\ li' = li + 1
                    /\ UNCHANGED <<data, tries, raised>>
               [] OTHER ->
                    /\ pc' = OnScrapeRaise
                    /\ raised' = "detail"
                    /\ UNCHANGED <<data, tries, li>>
    /\ UNCHANGED seen_links
    /\ UNCHANGED discVars
    /\ UNCHANGED <<session, quits, lang, all_rows, output>>
    /\ UNCHANGED durVars

(***************************************************************************)
(* scrape_language returns; main extends all_rows and takes the next lang  *)
(***************************************************************************)
ScrapeReturn ==
    /\ pc = "links"
    /\ li > Len(results)
    /\ all_rows' = all_rows \o data
    /\ lang' = lang + 1
    /\ pc' = IF lang + 1 > NumLangs THEN "finally" ELSE "lang"
    /\ PassReset
    /\ DiscReset
    /\ UNCHANGED <<session, quits, raised, output>>
    /\ UNCHANGED durVars

(***************************************************************************)
(* main: finally: driver.quit()                                            *)
(***************************************************************************)
Quit ==
    /\ pc = "finally"
    /\ quits' = quits + 1
    /\ session' = "closed"
    /\ \E o \in {"ok", "raise"} :
          /\ pc' = IF o = "ok" /\ raised = "none" THEN "reseq" ELSE "failed"
          /\ raised' = IF o = "raise" /\ raised = "none" THEN "quit" ELSE raised
    /\ UNCHANGED <<lang, all_rows, output>>
    /\ UNCHANGED discVars
    /\ UNCHANGED <<passVars, durVars>>

(***************************************************************************)
(* main: "Resequence course_id globally across all languages"              *)
(***************************************************************************)
\* a mutated resequencing: enumerate without start=1
ResequencedFromZero(rows) ==
    [i \in 1..Len(rows) |-> [rows[i] EXCEPT !.course_id = FormatId(i - 1, FinalIdWidth)]]

\* for i, row in enumerate(all_rows, start=1): row["course_id"] = f"C{i:05d}"
Resequenced(rows) ==
    [i \in 1..Len(rows) |-> [rows[i] EXCEPT !.course_id = FormatId(i, FinalIdWidth)]]

Resequence ==
    /\ pc = "reseq"
    /\ all_rows' = Resequenced(all_rows)
    /\ pc' = "write"
    /\ UNCHANGED <<session, quits, raised, lang, output>>
    /\ UNCHANGED <<discVars, passVars, durVars>>

(***************************************************************************)
(* main: the DataFrame is written                                          *)
(***************************************************************************)
\* "ok": courses.csv written; "locked": PermissionError, the timestamped
\* file written; "locked_twice": that failed too, the preview is printed;
\* "error": another exception from to_csv, the preview is printed
WriteOutcomes == {"ok", "locked", "locked_twice", "error"}

WriteCsv ==
    /\ pc = "write"
    /\ \E o \in WriteOutcomes :
          output' = CASE o = "ok" -> "courses.csv"
                      [] o = "locked" -> "backup"
                      [] OTHER -> "preview"
    /\ pc' = "done"
    /\ UNCHANGED <<session, quits, raised, lang, all_rows>>
    /\ UNCHANGED <<discVars, passVars, durVars>>

(***************************************************************************)
(* The run of main.                                                        *)
(***************************************************************************)
Next ==
    \/ BuildDriver
    \/ ScrapeStart
    \/ Scroll
    \/ Reparse
    \/ NextLink
    \/ Attempt
    \/ ScrapeReturn
    \/ Quit
    \/ Resequence
    \/ WriteCsv

Spec == Init /\ [][Next]_vars

(***************************************************************************)
(* One discovery: scrape_language of the first keyword up to the return of *)
(* collect_all_course_cards.  The loop is the only thread of control and   *)
(* every call in a round returns or raises, so a round that can run does.  *)
(***************************************************************************)
InitDiscover ==
    /\ pc = "lang"
    /\ session = "open"
    /\ quits = 0
    /\ raised = "none"
    /\ lang = 1
    /\ all_rows = <<>>
    /\ output = "none"
    /\ snapshot = NoSnapshot
    /\ results = <<>>
    /\ idle = 0
    /\ noGrow = 0
    /\ everSeen = {}
    /\ scrollFault = "none"
    /\ data = <<>>
    /\ li = 1
    /\ tries = 0
    /\ seen_links = {}
    /\ outcomes = NoOutcomes
    /\ dpage = NoDetailPage
    /\ strat = 0
    /\ duration = NoDuration

NextDiscover ==
    \/ ScrapeStart
    \/ Scroll
    \/ Reparse

SpecDiscover ==
    InitDiscover /\ [][NextDiscover]_vars /\ WF_vars(NextDiscover)

(***************************************************************************)
(* parse_course_detail: the duration cascade.                              *)
(*                                                                         *)
(* The detail page is what each strategy's scan meets, in scan order: for  *)
(* every element (script, regex) the strategy looks at, the candidate its  *)
(* detector yields, kept as the candidate's length.  0 is a falsy          *)
(* candidate (None or ""); Skip is a JSON-LD script that gives no value    *)
(* (json.loads raised, not a dict, or neither key present).                *)
(***************************************************************************)
Skip == -1

Lens == {0, LenLimit - 1, LenLimit, LenLimit + 1}

CandVals(k) == IF k = 2 THEN Lens \cup {Skip} ELSE Lens

CandLists(k) == SeqsUpTo(CandVals(k), MaxEls)

\* the page on which strategies a and b meet the elements la and lb and the
\* other strategies meet none
DetailPage(a, la, b, lb) ==
    [k \in 1..8 |-> IF k = a THEN la ELSE IF k = b THEN lb ELSE <<>>]

Truthy(d) == d.len > 0

Cand(k, c, i) == [s |-> k, i |-> i, len |-> c[i]]

\* strategies 1 and 3: for el ...: if d and len(d) < 50: duration = d; break
RECURSIVE ScanCheckedFrom(_, _, _)
ScanCheckedFrom(k, c, i) ==
    IF i > Len(c) THEN NoDuration
    ELSE IF c[i] > 0 /\ c[i] < LenLimit THEN Cand(k, c, i)
    ELSE ScanCheckedFrom(k, c, i + 1)

ScanChecked(k, c) == ScanCheckedFrom(k, c, 1)

\* a mutated strategy 2: the value is taken only if it passes the length check
ScanJsonLdChecked(c) ==
    LET ok == {i \in 1..Len(c) : c[i] > 0 /\ c[i] < LenLimit}
    IN IF ok = {} THEN [found |-> FALSE, d |-> NoDuration]
       ELSE [found |-> TRUE, d |-> Cand(2, c, CHOOSE i \in ok : \A j \in ok : i <= j)]

\* strategy 2: for script in scripts: the first dict that has timeRequired
\* (or duration) sets duration to its value, whatever it is, and breaks
RECURSIVE ScanJsonLdFrom(_, _)
ScanJsonLdFrom(c, i) ==
    IF i > Len(c) THEN [found |-> FALSE, d |-> NoDuration]
    ELSE IF c[i] # Skip THEN [found |-> TRUE, d |-> Cand(2, c, i)]
    ELSE ScanJsonLdFrom(c, i + 1)

ScanJsonLd(c) == ScanJsonLdFrom(c, 1)

\* strategies 4 to 8: d = parse_duration_from_text(txt) (or the regex
\* match): if d: duration = d; break
RECURSIVE ScanFirstFrom(_, _, _)
ScanFirstFrom(k, c, i) ==
    IF i > Len(c) THEN NoDuration
    ELSE IF c[i] > 0 THEN Cand(k, c, i)
    ELSE ScanFirstFrom(k, c, i + 1)

ScanFirst(k, c) == ScanFirstFrom(k, c, 1)

\* a strategy that assigns duration only when its scan accepts a candidate
Assign(found) == IF Truthy(found) THEN found ELSE duration

DurationStep(k, new) ==
    /\ strat = k
    /\ duration' = new
    /\ strat' = k + 1
    /\ UNCHANGED dpage
    /\ UNCHANGED <<mainVars, discVars, passVars>>

\* strategy 1 runs unguarded: duration is None before it
Strategy1 == DurationStep(1, Assign(ScanChecked(1, dpage[1])))

Strategy2 ==
    DurationStep(2, IF Truthy(duration) THEN duration
                    ELSE LET r == ScanJsonLd(dpage[2])
                         IN IF r.found THEN r.d ELSE duration)

Strategy3 ==
    DurationStep(3, IF Truthy(duration) THEN duration
                    ELSE Assign(ScanChecked(3, dpage[3])))

Strategy4 ==
    DurationStep(4, IF Truthy(duration) THEN duration
                    ELSE Assign(ScanFirst(4, dpage[4])))

Strategy5 ==
    DurationStep(5, IF Truthy(duration) THEN duration
                    ELSE Assign(ScanFirst(5, dpage[5])))

Strategy6 ==
    DurationStep(6, IF Truthy(duration) THEN duration
                    ELSE Assign(ScanFirst(6, dpage[6])))

Strategy7 ==
    DurationStep(7, IF Truthy(duration) THEN duration
                    ELSE Assign(ScanFirst(7, dpage[7])))

Strategy8 ==
    DurationStep(8, IF Truthy(duration) THEN duration
                    ELSE Assign(ScanFirst(8, dpage[8])))

InitDuration ==
    /\ pc = "start"
    /\ session = "none"
    /\ quits = 0
    /\ raised = "none"
    /\ lang = 1
    /\ all_rows = <<>>
    /\ output = "none"
    /\ snapshot = NoSnapshot
    /\ results = <<>>
    /\ idle = 0
    /\ noGrow = 0
    /\ everSeen = {}
    /\ scrollFault = "none"
    /\ data = <<>>
    /\ li = 1
    /\ tries = 0
    /\ seen_links = {}
    /\ outcomes = NoOutcomes
    /\ \E a \in 1..8 : \E b \in a..8 :
          \E la \in CandLists(a), lb \in CandLists(b) :
             dpage = DetailPage(a, la, b, lb)
    /\ strat = 1
    /\ duration = NoDuration

NextDuration ==
    \/ Strategy1
    \/ Strategy2
    \/ Strategy3
    \/ Strategy4
    \/ Strategy5
    \/ Strategy6
    \/ Strategy7
    \/ Strategy8

SpecDuration == InitDuration /\ [][NextDuration]_vars

(***************************************************************************)
(* Properties of the discovery loop.                                       *)
(***************************************************************************)
\* the links the last snapshotted DOM showed
Shown == {AbsoluteUrl(snapshot.firsts[k].href) : k \in 1..Len(snapshot.firsts)}

\* C1: discovery returns exactly at the end of the round in which the count
\* of consecutive rounds without growth reaches MAX_IDLE_SCROLLS: idle always
\* equals that count (a round that grows resets it to 0), the loop never
\* goes on with the count at the threshold and never returns with the count
\* below it; and when the snapshot stops growing and the driver raises
\* nothing, the loop does return.
C1_IdleStall ==
    /\ [](idle = noGrow)
    /\ [](pc \in {"discover", "resnap"} => noGrow < MAX_IDLE_SCROLLS)
    /\ [](pc = "links" => noGrow = MAX_IDLE_SCROLLS)
    /\ ((<>[](noGrow # 0) /\ [](raised = "none")) => <>(pc = "links"))

\* discovery has returned after a round that grew the snapshot to two links
\* and the rounds without growth that followed
C1_Witness ==
    /\ pc = "links"
    /\ idle = MAX_IDLE_SCROLLS
    /\ Len(results) = Cardinality(Urls)
    /\ raised = "none"

C8_AnyScrollFaultSwallowed ==
    scrollFault # "none" => raised # "scroll"

\* C8 (amended): a JavascriptException of a scroll action is swallowed: the
\* round goes on to its re-parse, which updates the idle count and continues
\* or returns at the threshold (unless the re-parse itself raises); any
\* other driver fault of a scroll action aborts discovery and propagates out
\* of scrape_language.
C8_OnlyScriptFaultSwallowed ==
    /\ [](scrollFault = "js" => (raised # "scroll" /\ (pc = "resnap" \/ raised = "snapshot")))
    /\ [](scrollFault = "wd" => (raised = "scroll" /\ pc \notin {"discover", "resnap", "links"}))
    /\ [][(pc = "resnap" /\ scrollFault = "js" /\ raised' = "none") =>
             /\ idle' = (IF Len(results') > Len(results) THEN 0 ELSE idle + 1)
             /\ idle' = noGrow'
             /\ LinkSet(results') = {AbsoluteUrl(snapshot'.firsts[k].href) :
                                        k \in 1..Len(snapshot'.firsts)}
             /\ pc' = (IF idle' >= MAX_IDLE_SCROLLS THEN "links" ELSE "discover")]_vars

\* a round whose scroll raised JavascriptException is at its re-parse, with
\* two idle rounds counted before it
C8_Witness ==
    /\ scrollFault = "js"
    /\ pc = "resnap"
    /\ idle = 2
    /\ raised = "none"

RowsOf(rows, u) == Cardinality({i \in 1..Len(rows) : rows[i].course_link = u})

\* the link whose attempts are under way, if any
Attempting(u) == pc = "attempt" /\ results[li].link = u

\* C2: every link is attempted at most 1 + RETRY_DETAIL times; an attempt
\* is followed by another one only if it failed transiently; a link has one
\* record exactly if its last attempt succeeded and none otherwise (so none
\* when all its attempts failed transiently), and it is not attempted again
\* after the attempt that succeeded.
C2_BoundedRetry ==
    \A u \in Urls :
        LET os == outcomes[u]
            n == Len(os)
        IN /\ n <= 1 + RETRY_DETAIL
           /\ \A i \in 1..(n - 1) : os[i] = "transient"
           /\ RowsOf(data, u) = IF n > 0 /\ os[n] = "ok" THEN 1 ELSE 0
           /\ (n > 0 /\ os[n] = "ok") => ~Attempting(u)
           /\ Attempting(u) => n < 1 + RETRY_DETAIL
           /\ (n = 1 + RETRY_DETAIL /\ os[n] = "transient") => RowsOf(data, u) = 0

\* two links: one failed all its attempts, the other succeeded: one record
C2_Witness ==
    /\ pc = "links"
    /\ li > Len(results)
    /\ Len(results) = 2
    /\ \E u \in Urls : outcomes[u] = <<"transient", "transient", "transient">>
    /\ \E u \in Urls : outcomes[u] = <<"ok">>
    /\ Len(data) = 1

\* main holds the driver that build_driver returned
Acquired == pc # "start" /\ raised # "build"

C4_NothingPropagates ==
    raised \notin {"search", "scroll", "snapshot", "detail"}

\* C4 (amended): only the failures of a course's attempt are contained: no
\* failure of a detail navigation, readiness wait or extraction leaves
\* scrape_language.  A failure of the search-page navigation, of its
\* readiness wait, of a scroll action other than a script error, or of a
\* snapshot does leave scrape_language and main: the remaining keywords are
\* not scraped and no output is written.
C4_OnlyAttemptsContained ==
    /\ raised # "detail"
    /\ (\E u \in Urls : \E i \in 1..Len(outcomes[u]) : outcomes[u][i] # "ok") =>
          pc \in {"attempt", "links"}
    /\ raised \in {"search", "scroll", "snapshot"} =>
          /\ pc \in {"finally", "failed"}
          /\ lang <= NumLangs
          /\ output = "none"

\* a keyword's rows were collected, a later keyword's search or discovery
\* raised, and main ended with nothing written
C4_Witness ==
    /\ pc = "failed"
    /\ raised \in {"search", "scroll", "snapshot"}
    /\ Len(all_rows) > 0
    /\ output = "none"

\* the number a digit sequence writes
RECURSIVE Value(_)
Value(d) == IF d = <<>> THEN 0 ELSE 10 * Value(SubSeq(d, 1, Len(d) - 1)) + d[Len(d)]

\* the rows of rows that keyword l contributed, in order
RECURSIVE RowsOfLang(_, _)
RowsOfLang(rows, l) ==
    IF rows = <<>> THEN <<>>
    ELSE IF Head(rows).programming_language = l
         THEN <<Head(rows)>> \o RowsOfLang(Tail(rows), l)
         ELSE RowsOfLang(Tail(rows), l)

Provisional(rows) ==
    \A i \in 1..Len(rows) :
        /\ rows[i].course_id.prefix = "C"
        /\ Len(rows[i].course_id.digits) = TempIdWidth
        /\ Value(rows[i].course_id.digits) = i

\* C5: once collection has completed and the ids are resequenced, the i-th
\* row has id C followed by i zero-padded to FinalIdWidth digits, so the ids
\* are unique and contiguous whatever the per-keyword ids were; and before
\* that (while any keyword is still to be scraped, and up to the end of the
\* finally clause) every id is still the provisional per-keyword one.
C5_GlobalIds ==
    /\ pc \in {"write", "done"} =>
          /\ \A i \in 1..Len(all_rows) :
                /\ all_rows[i].course_id.prefix = "C"
                /\ Len(all_rows[i].course_id.digits) = FinalIdWidth
                /\ Value(all_rows[i].course_id.digits) = i
          /\ \A i, j \in 1..Len(all_rows) :
                i # j => all_rows[i].course_id # all_rows[j].course_id
    /\ pc \notin {"write", "done"} =>
          /\ Provisional(data)
          /\ \A l \in 1..NumLangs : Provisional(RowsOfLang(all_rows, l))

\* two keywords contributed two rows each and the output was written
C5_Witness ==
    /\ pc = "done"
    /\ Len(all_rows) = 4
    /\ all_rows[2].programming_language = 1
    /\ all_rows[3].programming_language = 2
    /\ output = "courses.csv"

\* C7: a non-transient failure of an attempt ends that course: it is the
\* link's last attempt and the link has no record; the step that meets it
\* leaves the keyword's records unchanged and moves to the next link.
C7_NonTransientSkips ==
    /\ [](\A u \in Urls : \A i \in 1..Len(outcomes[u]) :
              outcomes[u][i] = "other" =>
                  /\ i = Len(outcomes[u])
                  /\ RowsOf(data, u) = 0
                  /\ ~Attempting(u))
    /\ [][(pc = "attempt"
           /\ Len(outcomes'[results[li].link]) > 0
           /\ outcomes'[results[li].link][Len(outcomes'[results[li].link])] = "other")
             => (data' = data /\ pc' = "links" /\ li' = li + 1 /\ results' = results)]_vars

\* the first link's attempt failed non-transiently after a retry, and the
\* second link was then scraped
C7_Witness ==
    /\ pc = "links"
    /\ Len(results) = 2
    /\ li = 3
    /\ outcomes[results[1].link] = <<"transient", "other">>
    /\ outcomes[results[2].link] = <<"ok">>
    /\ Len(data) = 1

(***************************************************************************)
(* Properties of the duration cascade.                                     *)
(***************************************************************************)
\* the candidates of strategy k that the code accepts
Accepted(k) ==
    LET c == dpage[k]
    IN CASE k \in {1, 3} -> {i \in 1..Len(c) : c[i] > 0 /\ c[i] < LenLimit}
         [] k = 2 -> {i \in 1..Len(c) :
                        /\ c[i] > 0
                        /\ \A j \in 1..(i - 1) : c[j] = Skip}
         [] OTHER -> {i \in 1..Len(c) : c[i] > 0}

\* the candidates of strategy k that the claim accepts: non-none and of a
\* length that does not exceed LenLimit
Claimed(k) == {i \in 1..Len(dpage[k]) : dpage[k][i] > 0 /\ dpage[k][i] <= LenLimit}

Least(S) == CHOOSE i \in S : \A j \in S : i <= j

Winner(acc(_)) ==
    LET ks == {k \in 1..8 : acc(k) # {}}
    IN IF ks = {} THEN NoDuration
       ELSE Cand(Least(ks), dpage[Least(ks)], Least(acc(Least(ks))))

\* C10 as stated: the result is the first candidate of the lowest-numbered
\* strategy that is non-none and at most LenLimit long, in every strategy
C10_LengthCheckedCascade ==
    strat = 9 =>
        IF \E k \in 1..8 : Claimed(k) # {}
        THEN duration = Winner(Claimed)
        ELSE ~Truthy(duration)

\* C10 (amended): the result is the first accepted candidate of the
\* lowest-numbered strategy that accepts one, and is falsy if none does;
\* strategies 1 and 3 accept a truthy candidate shorter than LenLimit,
\* strategy 2 accepts the value of the first script that has one if it is
\* truthy, whatever its length, and strategies 4 to 8 accept any truthy
\* candidate; once a candidate is accepted no later strategy changes it.
C10_Cascade ==
    /\ strat = 9 =>
          IF \E k \in 1..8 : Accepted(k) # {}
          THEN duration = Winner(Accepted)
          ELSE ~Truthy(duration)
    /\ Truthy(duration) =>
          /\ duration.s < strat
          /\ duration = Winner(Accepted)

\* the structured-data value, longer than LenLimit, was returned although a
\* fallback element also held a candidate
C10_Witness ==
    /\ strat = 9
    /\ duration.s = 2
    /\ duration.len > LenLimit
    /\ dpage[8] # <<>>
    /\ dpage[8][1] > 0

====
